---- MODULE Spec2Model ----
(***************************************************************************)
(* Model of src/fst/simulation/plot_results.py: a straight-line script     *)
(* that reads two CSV files with pandas, indexes each by `t`, groups by    *)
(* `name`, selects `goodput`, plots every group as a line on its own       *)
(* matplotlib axes, and shows the figure.                                  *)
(*                                                                         *)
(* State: the file system (the two input files), the program counter (a    *)
(* source line number), the module-level names fig/axes, df1, ax1, df2,    *)
(* ax2, the pending exception, and three observers: the lines executed so  *)
(* far, how often each file was opened, how often the window was shown.    *)
(***************************************************************************)
EXTENDS Integers, Sequences, FiniteSets, TLC

\* Largest number of data rows of the file under study.
MaxRows == 2

\* pc value once the interpreter has left the module (after line 25, or
\* after an uncaught exception).
EOF == 26

SFQ == "StepSFQ_baseline_timestep-1-sec.csv"
BF == "StepBF_baseline_timestep-1-sec.csv"
FileNames == {SFQ, BF}

(***************************************************************************)
(* CSV text.  A file is a header (the set of column names it has) and a    *)
(* sequence of rows; every cell is a text token.                           *)
(***************************************************************************)
AllCols == {"t", "name", "goodput"}
ColumnOrder == <<"t", "name", "goodput">>

TTokens == {"1", "2"}
NameTokens == {"a", "b", "NA"}
GoodputTokens == {"10", "20"}
Tokens == TTokens \cup NameTokens \cup GoodputTokens

ColTokens(c) ==
    CASE c = "t" -> TTokens
      [] c = "name" -> NameTokens
      [] OTHER -> GoodputTokens

RawRows(cols) ==
    {f \in [cols -> Tokens] : \A c \in cols : f[c] \in ColTokens(c)}

SeqsUpTo(S, n) == UNION {[1..k -> S] : k \in 0..n}

MissingFile == [exists |-> FALSE, cols |-> {}, rows |-> <<>>]

WellFormedFiles(n) ==
    {[exists |-> TRUE, cols |-> AllCols, rows |-> rs] :
        rs \in SeqsUpTo(RawRows(AllCols), n)}

\* A missing file, an empty file, or a file lacking at least one column.
MalformedFiles ==
    {MissingFile, [exists |-> TRUE, cols |-> {}, rows |-> <<>>]}
    \cup UNION {{[exists |-> TRUE, cols |-> cs, rows |-> rs] :
                    rs \in SeqsUpTo(RawRows(cs), 1)} :
                cs \in (SUBSET AllCols) \ {{}, AllCols}}

\* The file under study ranges over every table of up to MaxRows rows; the
\* other file over the tables of at most one row.
StudiedFiles == WellFormedFiles(MaxRows) \cup MalformedFiles
OtherFiles == WellFormedFiles(1) \cup MalformedFiles

(***************************************************************************)
(* pandas.read_csv with default arguments.                                 *)
(***************************************************************************)
\* The missing-value marker of pandas.
NaN == "NaN"

\* pandas' default na_values (keep_default_na=True): a cell holding one of
\* these tokens is read as NaN, in every column.
NA_VALUES ==
    {"", "#N/A", "#N/A N/A", "#NA", "-1.#IND", "-1.#QNAN", "-NaN", "-nan",
     "1.#IND", "1.#QNAN", "<NA>", "N/A", "NA", "NULL", "NaN", "None", "n/a",
     "nan", "null"}

\* Text to integer for the numeric tokens of the model.
ToNumeric(tok) ==
    CASE tok = "1" -> 1
      [] tok = "2" -> 2
      [] tok = "10" -> 10
      [] tok = "20" -> 20

ParseCell(c, tok) ==
    IF tok \in NA_VALUES THEN NaN
    ELSE IF c = "name" THEN tok
    ELSE ToNumeric(tok)

Unbound == [kind |-> "unbound"]

\* The exception read_csv raises on this file, "None" if it loads.
read_csv_error(file) ==
    IF ~file.exists THEN "FileNotFoundError"
    ELSE IF file.cols = {} THEN "EmptyDataError"
    ELSE "None"

read_csv(file) ==
    [kind |-> "DataFrame",
     columns |-> SelectSeq(ColumnOrder, LAMBDA c : c \in file.cols),
     index_name |-> "None",
     index |-> [i \in 1..Len(file.rows) |-> i - 1],
     rows |-> [i \in 1..Len(file.rows) |->
                 [c \in file.cols |-> ParseCell(c, file.rows[i][c])]]]

InColumns(df, key) == \E i \in 1..Len(df.columns) : df.columns[i] = key


(***************************************************************************)
(* DataFrame.set_index(key, inplace=True): the column becomes the index    *)
(* and leaves the columns; the frame object itself is changed.             *)
(***************************************************************************)
set_index(df, key) ==
    [kind |-> "DataFrame",
     columns |-> SelectSeq(df.columns, LAMBDA c : c # key),
     index_name |-> key,
     index |-> [i \in 1..Len(df.rows) |-> df.rows[i][key]],
     rows |-> [i \in 1..Len(df.rows) |->
                 [c \in (DOMAIN df.rows[i]) \ {key} |-> df.rows[i][c]]]]

(***************************************************************************)
(* DataFrame.groupby(by)[selection] with default arguments (sort=True,     *)
(* dropna=True).  The result keeps a reference to the frame.               *)
(***************************************************************************)
\* Mutant of groupby: the grouped object is a copy of the frame from which
\* the rows with a missing key were removed.
groupby_filtered(df, by) ==
    LET keep == SelectSeq([i \in 1..Len(df.rows) |-> i],
                          LAMBDA i : df.rows[i][by] # NaN)
    IN [kind |-> "DataFrameGroupBy",
        obj |-> [df EXCEPT !.index = [j \in 1..Len(keep) |-> df.index[keep[j]]],
                           !.rows = [j \in 1..Len(keep) |-> df.rows[keep[j]]]],
        by |-> by]

groupby(df, by) ==
    [kind |-> "DataFrameGroupBy", obj |-> df, by |-> by]

getitem(gb, selection) ==
    [kind |-> "SeriesGroupBy", obj |-> gb.obj, by |-> gb.by,
     selection |-> selection]

\* Every string that can be a group key, in the order sort=True puts them.
LexOrder == <<"NA", "NaN", "a", "b">>

\* The group keys: the distinct values of the `by` column, NaN dropped, sorted.
GroupKeys(gb) ==
    LET vals == {gb.obj.rows[i][gb.by] : i \in 1..Len(gb.obj.rows)}
    IN SelectSeq(LexOrder, LAMBDA k : k \in vals \ {NaN})

\* Row positions of one group, in frame order.
GroupPositions(gb, key) ==
    SelectSeq([i \in 1..Len(gb.obj.rows) |-> i],
              LAMBDA i : gb.obj.rows[i][gb.by] = key)

(***************************************************************************)
(* SeriesGroupBy.plot(ax=ax, legend=True): Series.plot is applied to each  *)
(* group in key order; each call adds one line to the axes, labelled with  *)
(* the group key, x taken from the (numeric) index as it stands, y from    *)
(* the selected column, and redraws the legend from the axes' lines.       *)
(***************************************************************************)
EmptyAxes ==
    [lines |-> <<>>, legend |-> <<>>, xlabel |-> "", ylabel |-> "",
     title |-> ""]

\* Positions reordered so that the index values ascend (a stable sort).
RECURSIVE InsertByIndex(_, _, _)
InsertByIndex(sorted, p, index) ==
    IF sorted = <<>> THEN <<p>>
    ELSE IF index[p] < index[Head(sorted)] THEN <<p>> \o sorted
    ELSE <<Head(sorted)>> \o InsertByIndex(Tail(sorted), p, index)

RECURSIVE SortByIndex(_, _)
SortByIndex(pos, index) ==
    IF pos = <<>> THEN <<>>
    ELSE InsertByIndex(SortByIndex(SubSeq(pos, 1, Len(pos) - 1), index),
                       pos[Len(pos)], index)

\* Mutant of GroupLine: each group is sorted by its index before plotting.
GroupLineSorted(gb, key) ==
    LET pos == SortByIndex(GroupPositions(gb, key), gb.obj.index)
    IN [label |-> key,
        xdata |-> [j \in 1..Len(pos) |-> gb.obj.index[pos[j]]],
        ydata |-> [j \in 1..Len(pos) |-> gb.obj.rows[pos[j]][gb.selection]]]

GroupLine(gb, key) ==
    LET pos == GroupPositions(gb, key)
    IN [label |-> key,
        xdata |-> [j \in 1..Len(pos) |-> gb.obj.index[pos[j]]],
        ydata |-> [j \in 1..Len(pos) |-> gb.obj.rows[pos[j]][gb.selection]]]

plot(gb, ax) ==
    LET keys == GroupKeys(gb)
        lines == ax.lines \o [k \in 1..Len(keys) |-> GroupLine(gb, keys[k])]
    IN [ax EXCEPT !.lines = lines,
                  !.legend = IF Len(keys) = 0 THEN @
                             ELSE [k \in 1..Len(lines) |-> lines[k].label]]

(***************************************************************************)
(* The script.                                                             *)
(***************************************************************************)
VARIABLES files, pc, exc, executed, nread, shown, axes, df1, ax1, df2, ax2

vars == <<files, pc, exc, executed, nread, shown, axes, df1, ax1, df2, ax2>>

Init ==
    /\ files \in [FileNames -> StudiedFiles]
    /\ files[SFQ] \in OtherFiles \/ files[BF] \in OtherFiles
    /\ pc = 4
    /\ exc = "None"
    /\ executed = <<>>
    /\ nread = [f \in FileNames |-> 0]
    /\ shown = 0
    /\ axes = <<>>
    /\ df1 = Unbound
    /\ ax1 = Unbound
    /\ df2 = Unbound
    /\ ax2 = Unbound

\* The statement at `line` completes and control moves to `next`.
Goto(line, next) ==
    /\ pc' = next
    /\ exc' = exc
    /\ executed' = Append(executed, line)

\* Mutant of Raise: the exception is swallowed and the script goes on to
\* lay out and show the figure.
RaiseSwallowed(line, e) ==
    /\ pc' = 24
    /\ exc' = "None"
    /\ executed' = Append(executed, line)

\* The statement at `line` raises; nothing catches it, the process ends.
Raise(line, e) ==
    /\ pc' = EOF
    /\ exc' = e
    /\ executed' = Append(executed, line)

\* line 4: fig, axes = plt.subplots(nrows = 2, ncols = 1)
Subplots ==
    /\ pc = 4
    /\ axes' = [i \in {0, 1} |-> EmptyAxes]
    /\ Goto(4, 6)
    /\ UNCHANGED <<files, nread, shown, df1, ax1, df2, ax2>>

\* Mutant of ReadCsv1: a file that cannot be loaded is skipped and the
\* script carries on with the second file.
ReadCsv1Skips ==
    /\ pc = 6
    /\ nread' = [nread EXCEPT ![SFQ] = @ + (IF files[SFQ].exists THEN 1 ELSE 0)]
    /\ IF read_csv_error(files[SFQ]) = "None"
       THEN df1' = read_csv(files[SFQ]) /\ Goto(6, 7)
       ELSE df1' = df1 /\ Goto(6, 15)
    /\ UNCHANGED <<files, shown, axes, ax1, df2, ax2>>

\* line 6: df1 = pd.read_csv('StepSFQ_baseline_timestep-1-sec.csv')
ReadCsv1 ==
    /\ pc = 6
    /\ nread' = [nread EXCEPT ![SFQ] = @ + (IF files[SFQ].exists THEN 1 ELSE 0)]
    /\ IF read_csv_error(files[SFQ]) = "None"
       THEN df1' = read_csv(files[SFQ]) /\ Goto(6, 7)
       ELSE df1' = df1 /\ Raise(6, read_csv_error(files[SFQ]))
    /\ UNCHANGED <<files, shown, axes, ax1, df2, ax2>>

\* line 7: df1.set_index('t', inplace = True)
SetIndex1 ==
    /\ pc = 7
    /\ IF InColumns(df1, "t")
       THEN df1' = set_index(df1, "t") /\ Goto(7, 8)
       ELSE df1' = df1 /\ Raise(7, "KeyError")
    /\ UNCHANGED <<files, nread, shown, axes, ax1, df2, ax2>>

\* line 8: df1 = df1.groupby('name')['goodput']
GroupBy1 ==
    /\ pc = 8
    /\ IF InColumns(df1, "name") /\ InColumns(df1, "goodput")
       THEN df1' = getitem(groupby(df1, "name"), "goodput") /\ Goto(8, 9)
       ELSE df1' = df1 /\ Raise(8, "KeyError")
    /\ UNCHANGED <<files, nread, shown, axes, ax1, df2, ax2>>

\* line 9: ax1 = axes[0]
BindAx1 ==
    /\ pc = 9
    /\ ax1' = [kind |-> "Axes", ref |-> 0]
    /\ Goto(9, 10)
    /\ UNCHANGED <<files, nread, shown, axes, df1, df2, ax2>>

\* line 10: df1.plot(ax = ax1, legend = True)
Plot1 ==
    /\ pc = 10
    /\ axes' = [axes EXCEPT ![ax1.ref] = plot(df1, @)]
    /\ Goto(10, 11)
    /\ UNCHANGED <<files, nread, shown, df1, ax1, df2, ax2>>

\* Mutant of Labels1: after labelling the first panel the script goes
\* straight to the layout, leaving the second file out.
Labels1SkipsPanel2 ==
    /\ pc = 11
    /\ axes' = [axes EXCEPT ![ax1.ref] =
                  [@ EXCEPT !.xlabel = "Time (s)",
                            !.ylabel = "Goodput (tps)",
                            !.title = "Goodput with Fairness (Stochastic Fairness Queueing)"]]
    /\ pc' = 24
    /\ exc' = exc
    /\ executed' = executed \o <<11, 12, 13>>
    /\ UNCHANGED <<files, nread, shown, df1, ax1, df2, ax2>>

\* lines 11-13: ax1.set_xlabel / set_ylabel / set_title
Labels1 ==
    /\ pc = 11
    /\ axes' = [axes EXCEPT ![ax1.ref] =
                  [@ EXCEPT !.xlabel = "Time (s)",
                            !.ylabel = "Goodput (tps)",
                            !.title = "Goodput with Fairness (Stochastic Fairness Queueing)"]]
    /\ pc' = 15
    /\ exc' = exc
    /\ executed' = executed \o <<11, 12, 13>>
    /\ UNCHANGED <<files, nread, shown, df1, ax1, df2, ax2>>

\* line 15: df2 = pd.read_csv('StepBF_baseline_timestep-1-sec.csv')
ReadCsv2 ==
    /\ pc = 15
    /\ nread' = [nread EXCEPT ![BF] = @ + (IF files[BF].exists THEN 1 ELSE 0)]
    /\ IF read_csv_error(files[BF]) = "None"
       THEN df2' = read_csv(files[BF]) /\ Goto(15, 16)
       ELSE df2' = df2 /\ Raise(15, read_csv_error(files[BF]))
    /\ UNCHANGED <<files, shown, axes, df1, ax1, ax2>>

\* line 16: df2.set_index('t', inplace = True)
SetIndex2 ==
    /\ pc = 16
    /\ IF InColumns(df2, "t")
       THEN df2' = set_index(df2, "t") /\ Goto(16, 17)
       ELSE df2' = df2 /\ Raise(16, "KeyError")
    /\ UNCHANGED <<files, nread, shown, axes, df1, ax1, ax2>>

\* line 17: df2 = df2.groupby('name')['goodput']
GroupBy2 ==
    /\ pc = 17
    /\ IF InColumns(df2, "name") /\ InColumns(df2, "goodput")
       THEN df2' = getitem(groupby(df2, "name"), "goodput") /\ Goto(17, 18)
       ELSE df2' = df2 /\ Raise(17, "KeyError")
    /\ UNCHANGED <<files, nread, shown, axes, df1, ax1, ax2>>

\* Mutant of BindAx2: the second panel is bound to the first axes.
BindAx2ToFirstAxes ==
    /\ pc = 18
    /\ ax2' = [kind |-> "Axes", ref |-> 0]
    /\ Goto(18, 19)
    /\ UNCHANGED <<files, nread, shown, axes, df1, ax1, df2>>

\* line 18: ax2 = axes[1]
BindAx2 ==
    /\ pc = 18
    /\ ax2' = [kind |-> "Axes", ref |-> 1]
    /\ Goto(18, 19)
    /\ UNCHANGED <<files, nread, shown, axes, df1, ax1, df2>>

\* line 19: df2.plot(ax =ax2, legend = True)
Plot2 ==
    /\ pc = 19
    /\ axes' = [axes EXCEPT ![ax2.ref] = plot(df2, @)]
    /\ Goto(19, 20)
    /\ UNCHANGED <<files, nread, shown, df1, ax1, df2, ax2>>

\* lines 20-22: ax2.set_xlabel / set_ylabel / set_title
Labels2 ==
    /\ pc = 20
    /\ axes' = [axes EXCEPT ![ax2.ref] =
                  [@ EXCEPT !.xlabel = "Time (s)",
                            !.ylabel = "Goodput (tps)",
                            !.title = "Goodput with Fairness (Bloom Filter)"]]
    /\ pc' = 24
    /\ exc' = exc
    /\ executed' = executed \o <<20, 21, 22>>
    /\ UNCHANGED <<files, nread, shown, df1, ax1, df2, ax2>>

\* line 24: plt.tight_layout()
TightLayout ==
    /\ pc = 24
    /\ Goto(24, 25)
    /\ UNCHANGED <<files, nread, shown, axes, df1, ax1, df2, ax2>>

\* line 25: plt.show()
Show ==
    /\ pc = 25
    /\ shown' = shown + 1
    /\ Goto(25, EOF)
    /\ UNCHANGED <<files, nread, axes, df1, ax1, df2, ax2>>

Next ==
    \/ Subplots
    \/ ReadCsv1
    \/ SetIndex1
    \/ GroupBy1
    \/ BindAx1
    \/ Plot1
    \/ Labels1
    \/ ReadCsv2
    \/ SetIndex2
    \/ GroupBy2
    \/ BindAx2
    \/ Plot2
    \/ Labels2
    \/ TightLayout
    \/ Show

Spec == Init /\ [][Next]_vars


(***************************************************************************)
(* Vocabulary of the properties, stated on the text of the input files     *)
(* and on what the axes hold, not through the operators above.             *)
(***************************************************************************)
\* The statement at `line` has been executed (or has raised).
Done(line) == \E i \in 1..Len(executed) : executed[i] = line

LastExecuted == executed[Len(executed)]

\* A well-formed input: the file exists and has the three columns.
WellFormed(file) == file.exists /\ file.cols = AllCols

\* The distinct values of the `name` column, as written in the file.
DistinctNames(file) == {file.rows[i]["name"] : i \in 1..Len(file.rows)}

\* The rows of the file whose name is n, in file order.
RowsNamed(file, n) == SelectSeq(file.rows, LAMBDA r : r["name"] = n)

\* The (t, goodput) points a series holds, in plotting order.
Points(line) ==
    [j \in 1..Len(line.xdata) |-> <<line.xdata[j], line.ydata[j]>>]

\* The (t, goodput) points of a sequence of file rows, in file order.
RowPoints(rows) ==
    [j \in 1..Len(rows) |->
        <<ToNumeric(rows[j]["t"]), ToNumeric(rows[j]["goodput"])>>]

SeriesLabels(ax) == {ax.lines[k].label : k \in 1..Len(ax.lines)}

XCoords(ax) ==
    UNION {{ax.lines[k].xdata[j] : j \in 1..Len(ax.lines[k].xdata)} :
              k \in 1..Len(ax.lines)}

TColumn(file) == {ToNumeric(file.rows[i]["t"]) : i \in 1..Len(file.rows)}

Min(S) == CHOOSE x \in S : \A y \in S : x <= y
Max(S) == CHOOSE x \in S : \A y \in S : x >= y

Ascending(s) == \A j \in 1..(Len(s) - 1) : s[j] <= s[j + 1]

\* Sum of the lengths of the series of an axes.
RECURSIVE PointCount(_)
PointCount(lines) ==
    IF lines = <<>> THEN 0
    ELSE Len(lines[1].xdata) + PointCount(Tail(lines))

\* The panel and the plot statement of each input file.
PanelOf(f) == IF f = SFQ THEN 0 ELSE 1
PlotLineOf(f) == IF f = SFQ THEN 10 ELSE 19


(***************************************************************************)
(* Claims.                                                                 *)
(***************************************************************************)

\* C1: for a well-formed input file with N distinct `name` values, the panel
\* plotted from it holds exactly N series, one per distinct name; for each of
\* the two panels (SFQ file -> axes[0], BF file -> axes[1]).
C1_OneSeriesPerName ==
    \A f \in FileNames :
        (WellFormed(files[f]) /\ Done(PlotLineOf(f))) =>
            /\ Len(axes[PanelOf(f)].lines) = Cardinality(DistinctNames(files[f]))
            /\ SeriesLabels(axes[PanelOf(f)]) = DistinctNames(files[f])

\* C5: the x-coordinates of the points plotted in a panel are exactly the `t`
\* values of its file's rows, so the plotted minimum and maximum x are the
\* minimum and maximum of the file's `t` column.
C5_XCoordsAreTColumn ==
    \A f \in FileNames :
        (WellFormed(files[f]) /\ Done(PlotLineOf(f))) =>
            /\ XCoords(axes[PanelOf(f)]) = TColumn(files[f])
            /\ TColumn(files[f]) # {} =>
                  /\ XCoords(axes[PanelOf(f)]) # {}
                  /\ Min(XCoords(axes[PanelOf(f)])) = Min(TColumn(files[f]))
                  /\ Max(XCoords(axes[PanelOf(f)])) = Max(TColumn(files[f]))

\* C9: grouping partitions the records: every row of a well-formed file is
\* exactly one point of exactly one series of its panel, the series of its
\* name, with the row's t and goodput; no row is dropped or duplicated, and
\* the panel holds as many points as the file has rows.
C9_GroupingIsPartition ==
    \A f \in FileNames :
        (WellFormed(files[f]) /\ Done(PlotLineOf(f))) =>
            LET ax == axes[PanelOf(f)] IN
            /\ PointCount(ax.lines) = Len(files[f].rows)
            /\ \A n \in DistinctNames(files[f]) :
                  /\ Cardinality({k \in 1..Len(ax.lines) : ax.lines[k].label = n}) = 1
                  /\ \A k \in 1..Len(ax.lines) :
                        ax.lines[k].label = n =>
                            Points(ax.lines[k]) = RowPoints(RowsNamed(files[f], n))


\* The source line at which a file makes the script fail (0: it does not),
\* `base` being the line of its read_csv.
FailLine(file, base) ==
    IF ~file.exists \/ file.cols = {} THEN base
    ELSE IF "t" \notin file.cols THEN base + 1
    ELSE IF "name" \notin file.cols \/ "goodput" \notin file.cols THEN base + 2
    ELSE 0

ExpectedFailLine ==
    IF FailLine(files[SFQ], 6) # 0 THEN FailLine(files[SFQ], 6)
    ELSE FailLine(files[BF], 15)

\* C2: a CSV file lacking the `goodput` column makes the run fail while the
\* file is loaded (lines 6-8 or 15-17): the run ends with an uncaught
\* exception and the chart window is never shown.
C2_MissingGoodputFails ==
    (\E f \in FileNames : files[f].exists /\ "goodput" \notin files[f].cols) =>
        /\ shown = 0
        /\ ~Done(25)
        /\ pc = EOF =>
              /\ exc # "None"
              /\ LastExecuted \in {6, 7, 8, 15, 16, 17}

\* C2 witness: the BF file has t and name but no goodput; the first panel was
\* plotted, line 17 raised KeyError and the run ended without the window.
C2_Witness ==
    /\ pc = EOF
    /\ exc = "KeyError"
    /\ LastExecuted = 17
    /\ files[BF].cols = {"t", "name"}
    /\ Len(files[BF].rows) = 1
    /\ Done(10)
    /\ shown = 0

\* C3: a missing file or a missing column (t, name or goodput) in either file
\* ends the process at the first failing statement: no statement runs after
\* it, nothing is retried, a failure on the SFQ file leaves the BF file
\* unread, and the chart window is never shown, even when the other panel
\* was plotted.
C3_FailsAtFirstFailingStep ==
    /\ exc # "None" =>
          /\ pc = EOF
          /\ ~ENABLED Next
          /\ shown = 0
          /\ LastExecuted = ExpectedFailLine
    /\ ExpectedFailLine # 0 =>
          /\ shown = 0
          /\ \A i \in 1..Len(executed) : executed[i] <= ExpectedFailLine
          /\ pc = EOF => exc # "None"
    /\ FailLine(files[SFQ], 6) # 0 => nread[BF] = 0 /\ df2 = Unbound
    /\ \A f \in FileNames : nread[f] <= 1
    /\ \A i, j \in 1..Len(executed) : i < j => executed[i] < executed[j]

\* C3 witness: the first panel holds a series, then the BF file lacks `t`,
\* line 16 raised and the process ended without showing anything.
C3_Witness ==
    /\ exc = "KeyError"
    /\ LastExecuted = 16
    /\ Len(axes[0].lines) > 0
    /\ axes[0].title # ""
    /\ nread[BF] = 1
    /\ shown = 0

\* The statements of the script in source order.
FullRun ==
    <<4, 6, 7, 8, 9, 10, 11, 12, 13, 15, 16, 17, 18, 19, 20, 21, 22, 24, 25>>

IsPrefix(s, t) == Len(s) <= Len(t) /\ \A i \in 1..Len(s) : s[i] = t[i]

\* C6: the run is one linear pass in source order: load, index, group, plot
\* file A, the same for file B, then display.  The window is shown at most
\* once and only after both panels were plotted, each file is read at most
\* once, and a successful run executes every statement exactly once.
C6_SingleLinearPass ==
    /\ IsPrefix(executed, FullRun)
    /\ shown <= 1
    /\ \A f \in FileNames : nread[f] <= 1
    /\ shown = 1 => Done(10) /\ Done(19) /\ pc = EOF
    /\ (Done(16) \/ nread[BF] = 1) => Done(10)
    /\ (pc = EOF /\ exc = "None") =>
          /\ executed = FullRun
          /\ shown = 1
          /\ \A f \in FileNames : nread[f] = 1

\* C6 witness: a successful run that plotted series on both panels.
C6_Witness ==
    /\ pc = EOF
    /\ exc = "None"
    /\ shown = 1
    /\ Len(axes[0].lines) > 0
    /\ Len(axes[1].lines) > 0

\* The frame a name refers to: the DataFrame itself, or the one the group-by
\* object holds.
Loaded(v) == v.kind # "unbound"
Frame(v) == IF v.kind = "DataFrame" THEN v ELSE v.obj

\* The records of a frame: each row's values by field name, whether the
\* field is a column or the index.
Records(fr) ==
    [i \in 1..Len(fr.rows) |->
        [c \in (DOMAIN fr.rows[i]) \cup
               (IF fr.index_name = "None" THEN {} ELSE {fr.index_name}) |->
            IF c \in DOMAIN fr.rows[i] THEN fr.rows[i][c] ELSE fr.index[i]]]

FrameKept(v, w) == Loaded(v) => Loaded(w) /\ Frame(w) = Frame(v)

\* C7 (as stated): once a CSV is read into its frame no later step changes
\* the frame (columns, index and rows stay as loaded), and no file is written.
C7_NoMutationAfterLoad ==
    [][/\ FrameKept(df1, df1')
       /\ FrameKept(df2, df2')
       /\ files' = files]_vars

RecordsKept(v, w, indexLine) ==
    Loaded(v) =>
        /\ Loaded(w)
        /\ Records(Frame(w)) = Records(Frame(v))
        /\ pc # indexLine => Frame(w) = Frame(v)
        /\ (pc = indexLine /\ exc' = "None") =>
              /\ Frame(w).index_name = "t"
              /\ Frame(w).index = [i \in 1..Len(Frame(v).rows) |-> Frame(v).rows[i]["t"]]
              /\ Frame(w).columns = SelectSeq(Frame(v).columns, LAMBDA c : c # "t")
              /\ Frame(w) # Frame(v)

\* C7 (amended): after load the frame is changed by one step only, the
\* in-place set_index (line 7 / 16), which moves column t into the index;
\* the records (row order and every row's values) stay as loaded, no other
\* step changes the frame, and no file is written.
C7_OnlySetIndexChangesFrame ==
    [][/\ RecordsKept(df1, df1', 7)
       /\ RecordsKept(df2, df2', 16)
       /\ files' = files]_vars

\* C7 witness: a finished run whose first frame, of MaxRows rows one of which
\* has a missing name, is indexed by t.
C7_Witness ==
    /\ pc = EOF
    /\ shown = 1
    /\ Loaded(df1)
    /\ Frame(df1).index_name = "t"
    /\ Len(Frame(df1).rows) = MaxRows
    /\ \E i \in 1..Len(Frame(df1).rows) : Frame(df1).rows[i]["name"] = NaN

\* C8: within each series the points are in the order of their rows in the
\* file; nothing sorts by t, so a series ascends in t exactly when its rows
\* do in the file, whatever the t values of the other groups.
C8_SeriesInFileOrder ==
    \A f \in FileNames :
        (WellFormed(files[f]) /\ Done(PlotLineOf(f))) =>
            \A k \in 1..Len(axes[PanelOf(f)].lines) :
                LET line == axes[PanelOf(f)].lines[k]
                    rows == RowsNamed(files[f], line.label)
                IN /\ Points(line) = RowPoints(rows)
                   /\ Ascending(line.xdata) <=>
                         Ascending([j \in 1..Len(rows) |-> ToNumeric(rows[j]["t"])])

\* C8 witness: a plotted series whose rows descend in t in the file, and
\* which is drawn descending.
C8_Witness ==
    \E f \in FileNames :
        /\ WellFormed(files[f])
        /\ Done(PlotLineOf(f))
        /\ \E k \in 1..Len(axes[PanelOf(f)].lines) :
              /\ axes[PanelOf(f)].lines[k].xdata = <<2, 1>>
              /\ ~Ascending(axes[PanelOf(f)].lines[k].xdata)

\* The series a file yields: one per distinct name that is not a
\* missing-value token, in name order, with that name's rows in file order.
ExpectedLines(file) ==
    LET keys == SelectSeq(LexOrder,
                          LAMBDA n : n \in DistinctNames(file) \ NA_VALUES)
    IN [k \in 1..Len(keys) |->
          LET rows == RowsNamed(file, keys[k])
          IN [label |-> keys[k],
              xdata |-> [j \in 1..Len(rows) |-> ToNumeric(rows[j]["t"])],
              ydata |-> [j \in 1..Len(rows) |-> ToNumeric(rows[j]["goodput"])]]]

\* C10: the panels are independent: the series of axes[0] (titled Stochastic
\* Fairness Queueing) are a function of the SFQ file alone, those of axes[1]
\* (titled Bloom Filter) of the BF file alone, and no series is drawn on the
\* other panel.
C10_PanelsIndependent ==
    Done(4) =>
        /\ axes[0].lines = IF Done(10) THEN ExpectedLines(files[SFQ]) ELSE <<>>
        /\ axes[1].lines = IF Done(19) THEN ExpectedLines(files[BF]) ELSE <<>>
        /\ axes[0].title = IF Done(13)
                           THEN "Goodput with Fairness (Stochastic Fairness Queueing)"
                           ELSE ""
        /\ axes[1].title = IF Done(22)
                           THEN "Goodput with Fairness (Bloom Filter)"
                           ELSE ""

\* C10 witness: the window is shown with both panels holding series, and the
\* two panels differ.
C10_Witness ==
    /\ shown = 1
    /\ axes[0].lines # <<>>
    /\ axes[1].lines # <<>>
    /\ axes[0].lines # axes[1].lines

====
